---------------------------- MODULE Spec2Model ----------------------------
(***************************************************************************)
(* A model of kzaksigmets.py: the coordinate encoder (coord_to_str and its *)
(* callers), the KZAK feature filter, the polygon and document builders,   *)
(* the three-stage run() and the main program around it.                   *)
(*                                                                         *)
(* Text is modelled as a sequence of one-character strings, so that        *)
(* zfill, lstrip and join act on characters as they do in Python.          *)
(* A float coordinate is modelled by the decimal that Decimal(str(coord))  *)
(* yields: a sign, an integer magnitude and the digits after the point.    *)
(***************************************************************************)
EXTENDS Integers, Sequences, FiniteSets, TLC

VARIABLES
    \* ---- the main program and run() ----
    pc,           \* position of the main program
    args,         \* parsed command line: which overrides were supplied
    maps_dir,     \* how the Maps folder was resolved
    sigmets_json, \* the fetched payload
    filtered,     \* run()'s local: the retained features
    maps_root,    \* run()'s local: the document under construction
    outfile,      \* the output file on disk
    exec_path,    \* how the vatSys executable was resolved
    launched,     \* whether subprocess.Popen was called
    console,      \* the error() messages printed so far
    events,       \* history: the stages entered, in order
    \* ---- one call of coord_to_str ----
    epc,          \* "idle", "call" (arguments bound) or "ret" (returned)
    coord,        \* the argument coord
    int_length,   \* the argument int_length
    result        \* the returned text

vars == <<pc, args, maps_dir, sigmets_json, filtered, maps_root, outfile,
          exec_path, launched, console, events, epc, coord, int_length, result>>

mainVars == <<pc, args, maps_dir, sigmets_json, filtered, maps_root, outfile,
              exec_path, launched, console, events>>

encVars == <<epc, coord, int_length, result>>

-----------------------------------------------------------------------------
(* Bounds of the model *)

\* the longest run of digits after the decimal point of an input coordinate
MaxFracDigits == 4
\* the most features a fetched payload holds
MaxFeatures == 3

-----------------------------------------------------------------------------
(* Decimals and text *)

\* the decimal Decimal(str(coord)) yields for a float whose repr has sign
\* neg, integer digits ip and fractional digits fd (fd = <<>> for an int)
Dec(neg, ip, fd) == [neg |-> neg, ip |-> ip, fd |-> fd]

DigitChars == <<"0", "1", "2", "3", "4", "5", "6", "7", "8", "9">>

DigitChar(n) == DigitChars[n + 1]

IsDigitChar(c) == \E n \in 0..9 : c = DigitChar(n)

RECURSIVE NatStr(_)
NatStr(n) == IF n < 10 THEN <<DigitChar(n)>>
             ELSE NatStr(n \div 10) \o <<DigitChar(n % 10)>>

\* str(n) of a Python int
StrInt(n) == IF n < 0 THEN <<"-">> \o NatStr(-n) ELSE NatStr(n)

\* int(d) of a Decimal: truncation toward zero
IntOfDecimal(d) == IF d.neg THEN -d.ip ELSE d.ip

\* d % 1 of a Decimal: the remainder keeps the sign of the dividend, also
\* when it is zero (Decimal('-37.0') % 1 is Decimal('-0.0'))
DecimalMod1(d) == [neg |-> d.neg, ip |-> 0, fd |-> d.fd]

RECURSIVE Zeros(_)
Zeros(n) == IF n <= 0 THEN <<>> ELSE <<"0">> \o Zeros(n - 1)

\* str.zfill(width): pads with zeros on the left, after a leading sign
zfill(s, width) ==
    IF Len(s) >= width THEN s
    ELSE IF s # <<>> /\ Head(s) \in {"+", "-"}
         THEN <<Head(s)>> \o Zeros(width - Len(s)) \o Tail(s)
         ELSE Zeros(width - Len(s)) \o s

\* str.lstrip(chars): drops every leading character that is in chars
RECURSIVE lstrip(_, _)
lstrip(s, chars) ==
    IF s = <<>> \/ Head(s) \notin chars THEN s
    ELSE lstrip(Tail(s), chars)

\* the i-th digit after the point, 0 beyond the last one
FracDigit(fd, i) == IF i <= Len(fd) THEN fd[i] ELSE 0

\* f'{d:.3f}' of a Decimal: rounded to three places, ties to even
\* (the default context's ROUND_HALF_EVEN), a minus sign also on a zero
FormatF3(d) ==
    LET kept == d.ip * 1000 + FracDigit(d.fd, 1) * 100
                + FracDigit(d.fd, 2) * 10 + FracDigit(d.fd, 3)
        next == FracDigit(d.fd, 4)
        more == \E i \in 5..Len(d.fd) : d.fd[i] # 0
        up   == next > 5 \/ (next = 5 /\ (more \/ kept % 2 = 1))
        m    == IF up THEN kept + 1 ELSE kept
        f    == m % 1000
    IN  (IF d.neg THEN <<"-">> ELSE <<>>)
        \o NatStr(m \div 1000) \o <<".">>
        \o <<DigitChar(f \div 100), DigitChar((f \div 10) % 10), DigitChar(f % 10)>>

-----------------------------------------------------------------------------
(* coord_to_str, long_to_str, lat_to_str *)

\* integer_part = int(d) - 360 if int(d) > 180 else int(d)
integer_part(d) == IF IntOfDecimal(d) > 180 THEN IntOfDecimal(d) - 360
                   ELSE IntOfDecimal(d)

\* fractional_part_str = f'{d % 1:.3f}'.lstrip('0').lstrip('-0')
fractional_part_str(d) ==
    lstrip(lstrip(FormatF3(DecimalMod1(d)), {"0"}), {"-", "0"})

\* leader with >= in place of >
leader_nonneg(ip) == IF ip >= 0 THEN <<"+">> ELSE <<>>

\* leader = '+' if integer_part > 0 else ''
leader(ip) == IF ip > 0 THEN <<"+">> ELSE <<>>

coord_to_str(c, width) ==
    leader(integer_part(c)) \o zfill(StrInt(integer_part(c)), width)
    \o fractional_part_str(c)

long_to_str(c) == coord_to_str(c, 3)

lat_to_str(c) == coord_to_str(c, 2)

-----------------------------------------------------------------------------
(* Constants of the program *)

\* DEFAULT_MAP_ATTRIBUTES, as the set of (attribute, value) pairs
DEFAULT_MAP_ATTRIBUTES ==
    { <<"Type", "REST_NTZ_DAIW">>, <<"Name", "SIGMETS">>,
      <<"Priority", "1">>, <<"CustomColourName", "PRDArea">> }

\* DEFAULT_POLY_ATTRIBUTES['Type']
DEFAULT_POLY_TYPE == "Line"

\* the messages error() is called with
ERR_MAPS_DIR == "could not find suitable vatSys Maps folder for ATOP Oakland profile"
ERR_FETCH == "could not fetch SIGMETs from API"
ERR_FORM_XML == "could not form XML"
\* (followed by the path in the program)
ERR_WRITE == "could not write output file"
ERR_EXEC == "could not find suitable vatSys executable"

\* a local name that is not bound yet
Unbound == [unbound |-> TRUE]

-----------------------------------------------------------------------------
(* Markup elements *)

\* an lxml element: tag, attributes, text (a character sequence, empty when
\* there is none) and children in order
Element(tag, attrib, text, children) ==
    [tag |-> tag, attrib |-> attrib, text |-> text, children |-> children]

\* map_element.insert(0, e) in place of append
PrependToMap(root, e) ==
    [root EXCEPT !.children[1].children = <<e>> \o @]

\* map_element.append(e): e becomes the last child of the <Map> element,
\* which is the first child of maps_root
AppendToMap(root, e) ==
    [root EXCEPT !.children[1].children = Append(@, e)]

\* make_base_map_xml: <Maps> holding one <Map> with the given attributes
make_base_map_xml(map_attributes) ==
    Element("Maps", {}, <<>>, << Element("Map", map_attributes, <<>>, <<>>) >>)

\* sep.join(strs)
RECURSIVE join(_, _)
join(sep, strs) ==
    IF strs = <<>> THEN <<>>
    ELSE IF Len(strs) = 1 THEN strs[1]
    ELSE strs[1] \o sep \o join(sep, Tail(strs))

\* the point string with longitude before latitude
point_string_long_first(point) == long_to_str(point[1]) \o lat_to_str(point[2])

\* lat_to_str(latitude) + long_to_str(longitude) of one [longitude, latitude]
point_string(point) == lat_to_str(point[2]) \o long_to_str(point[1])

\* the list comprehension of make_poly_xml
point_strings(sigmet_poly) ==
    [k \in 1..Len(sigmet_poly) |-> point_string(sigmet_poly[k])]

\* make_poly_xml: raises (ValueError) when a point does not unpack into
\* exactly (longitude, latitude); otherwise <Line><Point>text</Point></Line>
make_poly_xml(sigmet_poly) ==
    IF \E k \in 1..Len(sigmet_poly) : Len(sigmet_poly[k]) # 2
    THEN [raised |-> TRUE, value |-> Unbound]
    ELSE [raised |-> FALSE,
          value |-> Element(DEFAULT_POLY_TYPE, {}, <<>>,
                        << Element("Point", {}, join(<<"/">>, point_strings(sigmet_poly)), <<>>) >>)]

-----------------------------------------------------------------------------
(* filter_kzak_sigmets *)

\* the test with a case-insensitive comparison
KeepsFeatureAnyCase(feature) ==
    "firId" \in DOMAIN feature.properties /\ feature.properties.firId \in {"KZAK", "kzak"}

\* the test of the loop body; raises (KeyError) without 'properties'
KeepsFeature(feature) ==
    "firId" \in DOMAIN feature.properties /\ feature.properties.firId = "KZAK"

RECURSIVE filter_loop(_, _, _)
filter_loop(features, i, return_list) ==
    IF i > Len(features) THEN [raised |-> FALSE, value |-> return_list]
    ELSE IF "properties" \notin DOMAIN features[i]
         THEN [raised |-> TRUE, value |-> <<>>]
    ELSE IF KeepsFeature(features[i])
         THEN filter_loop(features, i + 1, Append(return_list, features[i]))
    ELSE filter_loop(features, i + 1, return_list)

\* the filter reading geojson_dict.get('features', [])
filter_kzak_sigmets_default_empty(geojson_dict) ==
    IF "features" \notin DOMAIN geojson_dict
    THEN [raised |-> FALSE, value |-> <<>>]
    ELSE filter_loop(geojson_dict.features, 1, <<>>)

\* filter_kzak_sigmets: raises (KeyError) without the 'features' key
filter_kzak_sigmets(geojson_dict) ==
    IF "features" \notin DOMAIN geojson_dict
    THEN [raised |-> TRUE, value |-> <<>>]
    ELSE filter_loop(geojson_dict.features, 1, <<>>)

-----------------------------------------------------------------------------
(* run(): the transform stage *)

\* for poly_coords in geojson_sigmet['geometry']['coordinates']: from ring j
RECURSIVE ring_loop(_, _, _)
ring_loop(root, rings, j) ==
    IF j > Len(rings) THEN [raised |-> FALSE, root |-> root]
    ELSE LET infill_xml == make_poly_xml(rings[j])
         IN  IF infill_xml.raised THEN [raised |-> TRUE, root |-> root]
             ELSE ring_loop(AppendToMap(root, infill_xml.value), rings, j + 1)

\* for geojson_sigmet in filtered: from feature i; raises (KeyError) on a
\* feature without 'geometry'
RECURSIVE feature_loop(_, _, _)
feature_loop(root, feats, i) ==
    IF i > Len(feats) THEN [raised |-> FALSE, root |-> root]
    ELSE IF "geometry" \notin DOMAIN feats[i] THEN [raised |-> TRUE, root |-> root]
    ELSE LET inner == ring_loop(root, feats[i].geometry.coordinates, 1)
         IN  IF inner.raised THEN inner
             ELSE feature_loop(inner.root, feats, i + 1)

\* the body of run()'s second try block: what it leaves in filtered and
\* maps_root, and whether it raised
form_xml(geojson_dict) ==
    LET base == make_base_map_xml(DEFAULT_MAP_ATTRIBUTES)
        kept == filter_kzak_sigmets(geojson_dict)
    IN  IF kept.raised
        THEN [raised |-> TRUE, filtered |-> <<>>, root |-> base]
        ELSE LET built == feature_loop(base, kept.value, 1)
             IN  [raised |-> built.raised, filtered |-> kept.value, root |-> built.root]

-----------------------------------------------------------------------------
(* Inputs *)

\* the ring of the end-to-end scenario: [[-122.5, 37.0], [-122.0, 37.5]]
RingA == << <<Dec(TRUE, 122, <<5>>), Dec(FALSE, 37, <<0>>)>>,
            <<Dec(TRUE, 122, <<0>>), Dec(FALSE, 37, <<5>>)>> >>

\* [[179.0, 0.5], [200.25, -0.5]]
RingB == << <<Dec(FALSE, 179, <<0>>), Dec(FALSE, 0, <<5>>)>>,
            <<Dec(FALSE, 200, <<2, 5>>), Dec(TRUE, 0, <<5>>)>> >>

\* a ring whose position carries an altitude: [[-122.5, 37.0, 0.0]]
RingBad == << <<Dec(TRUE, 122, <<5>>), Dec(FALSE, 37, <<0>>), Dec(FALSE, 0, <<0>>)>> >>

SeqsUpTo(S, n) == UNION {[1..k -> S] : k \in 0..n}

\* geometry.coordinates values: no ring, one ring, two and three rings in
\* both orders, and one whose second ring make_poly_xml raises on
Geometries == { <<>>, <<RingA>>, <<RingA, RingB>>, <<RingB, RingA>>,
                <<RingB, RingA, RingB>>, <<RingA, RingBad>> }

KzakFeatures ==
    {[properties |-> [firId |-> "KZAK", hazard |-> "TS"],
      geometry |-> [type |-> "Polygon", coordinates |-> g]] : g \in Geometries}
    \cup {[properties |-> [firId |-> "KZAK", hazard |-> "TS"]]}

OtherFeatures ==
    {[properties |-> pr, geometry |-> [type |-> "Polygon", coordinates |-> <<RingA>>]] :
        pr \in {[firId |-> "OTHER", hazard |-> "TS"],
                [firId |-> "kzak", hazard |-> "TS"],
                [hazard |-> "TS"]}}
    \cup {[geometry |-> [type |-> "Polygon", coordinates |-> <<RingA>>]]}

Features == KzakFeatures \cup OtherFeatures

\* a payload without the 'features' key
NoFeaturesPayload == [type |-> "FeatureCollection"]

Payloads ==
    {[type |-> "FeatureCollection", features |-> fs] : fs \in SeqsUpTo(Features, MaxFeatures)}
    \cup {NoFeaturesPayload}

-----------------------------------------------------------------------------
(* The main program *)

NoFile == [state |-> "untouched", content |-> Unbound]

MainIdle ==
    /\ maps_dir = "unset"
    /\ sigmets_json = Unbound
    /\ filtered = <<>>
    /\ maps_root = Unbound
    /\ outfile = NoFile
    /\ exec_path = "unset"
    /\ launched = FALSE
    /\ console = <<>>
    /\ events = <<>>

EncIdle ==
    /\ epc = "idle"
    /\ coord = Dec(FALSE, 0, <<>>)
    /\ int_length = 0
    /\ result = <<>>

Init ==
    /\ pc = "main"
    /\ args \in [mapsdir : BOOLEAN, exec : BOOLEAN]
    /\ MainIdle
    /\ EncIdle

\* maps_dir = args.mapsdir if given, else find_vatsys_maps_dir(); exit
\* when it is None
ResolveMapsDir ==
    /\ pc = "main"
    /\ \E found \in {"registry", "home", "none"} :
         LET dir == IF args.mapsdir THEN "arg" ELSE found
         IN  /\ maps_dir' = dir
             /\ IF dir = "none"
                THEN /\ console' = Append(console, ERR_MAPS_DIR)
                     /\ pc' = "exit_wait"
                ELSE /\ console' = console
                     /\ pc' = "fetch"
    /\ UNCHANGED <<args, sigmets_json, filtered, maps_root, outfile, exec_path,
                   launched, events>>
    /\ UNCHANGED encVars

\* run(), first try block: requests.get and r.json() return a payload, or
\* either raises
Fetch ==
    /\ pc = "fetch"
    /\ events' = Append(events, "fetch")
    /\ \/ /\ console' = Append(console, ERR_FETCH)
          /\ pc' = "exit_wait"
          /\ UNCHANGED sigmets_json
       \/ /\ \E p \in Payloads : sigmets_json' = p
          /\ pc' = "transform"
          /\ UNCHANGED console
    /\ UNCHANGED <<args, maps_dir, filtered, maps_root, outfile, exec_path, launched>>
    /\ UNCHANGED encVars

\* the transform stage with a handler that reports and goes on
TransformIgnoringErrors ==
    /\ pc = "transform"
    /\ events' = Append(events, "transform")
    /\ LET r == form_xml(sigmets_json)
       IN  /\ filtered' = r.filtered
           /\ maps_root' = r.root
           /\ console' = IF r.raised THEN Append(console, ERR_FORM_XML) ELSE console
           /\ pc' = "write"
    /\ UNCHANGED <<args, maps_dir, sigmets_json, outfile, exec_path, launched>>
    /\ UNCHANGED encVars

\* run(), second try block and its handler
Transform ==
    /\ pc = "transform"
    /\ events' = Append(events, "transform")
    /\ LET r == form_xml(sigmets_json)
       IN  /\ filtered' = r.filtered
           /\ maps_root' = r.root
           /\ IF r.raised
              THEN /\ console' = Append(console, ERR_FORM_XML)
                   /\ pc' = "exit_wait"
              ELSE /\ console' = console
                   /\ pc' = "write"
    /\ UNCHANGED <<args, maps_dir, sigmets_json, outfile, exec_path, launched>>
    /\ UNCHANGED encVars

\* the write stage with a handler that reports and returns
WriteIgnoringErrors ==
    /\ pc = "write"
    /\ events' = Append(events, "write")
    /\ \/ /\ outfile' = [state |-> "written", content |-> maps_root]
          /\ UNCHANGED console
       \/ /\ outfile' \in {outfile, [state |-> "partial", content |-> Unbound]}
          /\ console' = Append(console, ERR_WRITE)
    /\ pc' = "find_exec"
    /\ UNCHANGED <<args, maps_dir, sigmets_json, filtered, maps_root, exec_path, launched>>
    /\ UNCHANGED encVars

\* run(), third try block and its handler: the document is serialised to
\* the file, or the write raises, leaving the file as it was or half-written
Write ==
    /\ pc = "write"
    /\ events' = Append(events, "write")
    /\ \/ /\ outfile' = [state |-> "written", content |-> maps_root]
          /\ pc' = "find_exec"
          /\ UNCHANGED console
       \/ /\ outfile' \in {outfile, [state |-> "partial", content |-> Unbound]}
          /\ console' = Append(console, ERR_WRITE)
          /\ pc' = "exit_wait"
    /\ UNCHANGED <<args, maps_dir, sigmets_json, filtered, maps_root, exec_path, launched>>
    /\ UNCHANGED encVars

\* after run(): exec_path = args.exec if given, else find_vatsys_exec(),
\* which returns a path or None or raises (KeyError) on a missing
\* environment variable; then subprocess.Popen, which may raise as well
LaunchExec ==
    /\ pc = "find_exec"
    /\ \E found \in {"x86", "w6432", "none", "raise"}, popen_ok \in BOOLEAN :
         LET path == IF args.exec THEN "arg" ELSE found
         IN  /\ exec_path' = IF path = "raise" THEN exec_path ELSE path
             /\ IF path = "raise"
                THEN /\ pc' = "exited"
                     /\ UNCHANGED <<console, launched, events>>
                ELSE IF path = "none"
                THEN /\ console' = Append(console, ERR_EXEC)
                     /\ pc' = "exit_wait"
                     /\ UNCHANGED <<launched, events>>
                ELSE IF popen_ok
                THEN /\ launched' = TRUE
                     /\ events' = Append(events, "launch")
                     /\ pc' = "exit_wait"
                     /\ UNCHANGED console
                ELSE /\ pc' = "exited"
                     /\ UNCHANGED <<console, launched, events>>
    /\ UNCHANGED <<args, maps_dir, sigmets_json, filtered, maps_root, outfile>>
    /\ UNCHANGED encVars

\* exit_with_wait(): input() returns (or raises) and the process ends
ExitWithWait ==
    /\ pc = "exit_wait"
    /\ pc' = "exited"
    /\ UNCHANGED <<args, maps_dir, sigmets_json, filtered, maps_root, outfile,
                   exec_path, launched, console, events>>
    /\ UNCHANGED encVars

Next ==
    \/ ResolveMapsDir
    \/ Fetch
    \/ Transform
    \/ Write
    \/ LaunchExec
    \/ ExitWithWait

Spec == Init /\ [][Next]_vars

-----------------------------------------------------------------------------
(* One call of the encoder, on a bounded set of coordinates *)

\* the digits the inputs' fractional parts are written with
FracDigitPool == {0, 2, 5, 7, 9}

\* the digits after the point of a float's repr: none (an int from JSON), a
\* single 0, or up to MaxFracDigits digits not ending in 0
FracDigitSeqs ==
    {fd \in SeqsUpTo(FracDigitPool, MaxFracDigits) :
        Len(fd) <= 1 \/ fd[Len(fd)] # 0}

\* integer magnitudes around each threshold the code has: the sign, the
\* field widths 2 and 3, and the 180 / 360 of the wraparound
IntMagnitudes == {0, 1, 9, 10, 37, 45, 89, 90, 99, 100, 122, 159, 160,
                  179, 180, 181, 200, 359, 360, 361}

EncCoords ==
    {Dec(neg, ip, fd) : neg \in BOOLEAN, ip \in IntMagnitudes, fd \in FracDigitSeqs}

EncInit ==
    /\ pc = "none"
    /\ args = [mapsdir |-> FALSE, exec |-> FALSE]
    /\ MainIdle
    /\ epc = "call"
    /\ coord \in EncCoords
    /\ int_length = 0
    /\ result = <<>>

\* lat_to_str(coord)
CallLat ==
    /\ epc = "call"
    /\ int_length' = 2
    /\ result' = lat_to_str(coord)
    /\ epc' = "ret"
    /\ UNCHANGED coord
    /\ UNCHANGED mainVars

\* long_to_str(coord)
CallLong ==
    /\ epc = "call"
    /\ int_length' = 3
    /\ result' = long_to_str(coord)
    /\ epc' = "ret"
    /\ UNCHANGED coord
    /\ UNCHANGED mainVars

EncNext == CallLat \/ CallLong

EncSpec == EncInit /\ [][EncNext]_vars

-----------------------------------------------------------------------------
(* Properties of the encoder, checked under EncSpec *)

Returned == epc = "ret"

\* the exact decimal value - 360 of a positive decimal below 360
Minus360(d) ==
    IF \A i \in 1..Len(d.fd) : d.fd[i] = 0
    THEN Dec(TRUE, 360 - d.ip, d.fd)
    ELSE LET last == CHOOSE i \in 1..Len(d.fd) :
                        d.fd[i] # 0 /\ \A j \in (i + 1)..Len(d.fd) : d.fd[j] = 0
         IN  Dec(TRUE, 359 - d.ip,
                 [i \in 1..Len(d.fd) |->
                     IF i < last THEN 9 - d.fd[i]
                     ELSE IF i = last THEN 10 - d.fd[i] ELSE 0])

\* C1: longitude wraparound. A longitude whose integer part is in 181..359
\* encodes (width 3) to the same text as the value minus 360; in particular
\* 200.25 encodes to "-159.750".
C1_Wraparound ==
    (Returned /\ int_length = 3 /\ ~coord.neg /\ coord.ip > 180 /\ coord.ip < 360)
    => /\ result = coord_to_str(Minus360(coord), 3)
       /\ coord = Dec(FALSE, 200, <<2, 5>>)
          => result = <<"-", "1", "5", "9", ".", "7", "5", "0">>

\* C8: fractional suffix shape. Whatever the coordinate, the text after the
\* sign marker and the zero-padded integer part is a decimal point followed
\* by exactly three digits.
C8_FractionalSuffixShape ==
    Returned =>
        LET n == Len(result)
            t == IF coord.neg THEN -coord.ip ELSE coord.ip
            a == IF t > 180 THEN t - 360 ELSE t
        IN  /\ n >= 4
            /\ result[n - 3] = "."
            /\ \A i \in (n - 2)..n : IsDigitChar(result[i])
            /\ SubSeq(result, 1, n - 4)
                 = (IF a > 0 THEN <<"+">> ELSE <<>>) \o zfill(StrInt(a), int_length)

\* C9: sign marker rule. The text starts with '+' exactly when the integer
\* part (truncated toward zero, after the 360 subtraction) is strictly
\* positive; no '+' appears elsewhere; a '-' appears only as the first
\* character and only for a negative integer part. So 0.0 (width 2) gives
\* "00.000", -0.5 (width 2) gives "00.500" and 45.5 (width 3) "+045.500".
C9_SignMarker ==
    Returned =>
        LET t == IF coord.neg THEN -coord.ip ELSE coord.ip
            a == IF t > 180 THEN t - 360 ELSE t
        IN  /\ result # <<>>
            /\ (result[1] = "+") <=> (a > 0)
            /\ (result[1] = "-") <=> (a < 0)
            /\ \A i \in 2..Len(result) : result[i] \notin {"+", "-"}
            /\ (coord = Dec(FALSE, 0, <<0>>) /\ int_length = 2)
                  => result = <<"0", "0", ".", "0", "0", "0">>
            /\ (coord = Dec(TRUE, 0, <<5>>) /\ int_length = 2)
                  => result = <<"0", "0", ".", "5", "0", "0">>
            /\ (coord = Dec(FALSE, 45, <<5>>) /\ int_length = 3)
                  => result = <<"+", "0", "4", "5", ".", "5", "0", "0">>

\* 45.5 has been encoded with width 3
C9_Witness ==
    /\ Returned
    /\ coord = Dec(FALSE, 45, <<5>>)
    /\ int_length = 3
    /\ result = <<"+", "0", "4", "5", ".", "5", "0", "0">>

\* the value of a decimal with at most three fractional digits, in thousandths
Thousandths(d) ==
    (IF d.neg THEN -1 ELSE 1)
    * (d.ip * 1000 + FracDigit(d.fd, 1) * 100 + FracDigit(d.fd, 2) * 10 + FracDigit(d.fd, 3))

\* the inputs with at most three fractional digits and magnitude at most lim
CoordsWithin(lim) ==
    {d \in EncCoords : Len(d.fd) <= 3 /\ Thousandths(d) <= lim * 1000
                                      /\ Thousandths(d) >= -(lim * 1000)}

\* C10: the encoder is injective on what it is meant for. No other latitude
\* in [-90, 90] with at most three decimals encodes to the text a latitude
\* got, and no other such longitude in [-180, 180] to the text a longitude got.
C10_Injective ==
    /\ (Returned /\ int_length = 2 /\ coord \in CoordsWithin(90))
          => \A e \in CoordsWithin(90) :
                Thousandths(e) # Thousandths(coord) => lat_to_str(e) # result
    /\ (Returned /\ int_length = 3 /\ coord \in CoordsWithin(180))
          => \A e \in CoordsWithin(180) :
                Thousandths(e) # Thousandths(coord) => long_to_str(e) # result

-----------------------------------------------------------------------------
(* Properties of run() and the main program, checked under Spec *)

Has(seq, x) == \E i \in 1..Len(seq) : seq[i] = x

Ended == pc \in {"exit_wait", "exited"}

\* the polygon elements of the document under construction
Polygons == maps_root.children[1].children

\* the payload of the end-to-end scenario: one KZAK feature with one ring
ScenarioPayload ==
    [type |-> "FeatureCollection",
     features |-> << [properties |-> [firId |-> "KZAK", hazard |-> "TS"],
                      geometry |-> [type |-> "Polygon", coordinates |-> <<RingA>>]] >>]

\* the transform stage has run on the scenario's payload
ScenarioTransformed ==
    /\ Has(events, "transform")
    /\ sigmets_json = ScenarioPayload

\* there is one polygon element and its one <Point> child holds text
OnePolygonWithText(text) ==
    /\ Len(Polygons) = 1
    /\ Polygons[1].tag = "Line"
    /\ Len(Polygons[1].children) = 1
    /\ Polygons[1].children[1].tag = "Point"
    /\ Polygons[1].children[1].text = text

\* C2 as stated: for the single KZAK feature whose ring is
\* [[-122.5, 37.0], [-122.0, 37.5]] the <Point> text is
\* "37.000-122.500/37.500-122.000".
C2_EndToEnd_Original ==
    ScenarioTransformed =>
        OnePolygonWithText(
            <<"3", "7", ".", "0", "0", "0", "-", "1", "2", "2", ".", "5", "0", "0", "/",
              "3", "7", ".", "5", "0", "0", "-", "1", "2", "2", ".", "0", "0", "0">>)

\* C2 as amended: for that feature the <Point> text is
\* "+37.000-122.500/+37.500-122.000": latitude first, in ring order, joined by
\* '/', each latitude carrying the '+' of a strictly positive integer part.
C2_EndToEnd ==
    ScenarioTransformed =>
        OnePolygonWithText(
            <<"+", "3", "7", ".", "0", "0", "0", "-", "1", "2", "2", ".", "5", "0", "0", "/",
              "+", "3", "7", ".", "5", "0", "0", "-", "1", "2", "2", ".", "0", "0", "0">>)

\* the scenario's document has been written to the file
C2_Witness ==
    /\ ScenarioTransformed
    /\ outfile.state = "written"
    /\ outfile.content = maps_root

\* the transform stage has run on a payload whose features all have properties
FilterReturned ==
    /\ Has(events, "transform")
    /\ "features" \in DOMAIN sigmets_json
    /\ \A i \in 1..Len(sigmets_json.features) :
          "properties" \in DOMAIN sigmets_json.features[i]

\* the positions of the payload's features whose firId is the literal KZAK
KzakPositions ==
    {i \in 1..Len(sigmets_json.features) :
        /\ "firId" \in DOMAIN sigmets_json.features[i].properties
        /\ sigmets_json.features[i].properties.firId = "KZAK"}

\* C3: the filter returns, without raising, exactly the features whose firId
\* is the literal KZAK: as many as there are, each unmodified and at the
\* rank it has among them in the payload; features with another firId
\* (also "kzak") or with no firId are left out.
C3_Filter ==
    FilterReturned =>
        /\ ~filter_kzak_sigmets(sigmets_json).raised
        /\ Len(filtered) = Cardinality(KzakPositions)
        /\ \A i \in KzakPositions :
              filtered[1 + Cardinality({j \in KzakPositions : j < i})]
                 = sigmets_json.features[i]

\* the filter has run on [KZAK, OTHER, no firId] and kept the first only
C3_Witness ==
    /\ FilterReturned
    /\ Len(sigmets_json.features) = 3
    /\ KzakPositions = {1}
    /\ "firId" \in DOMAIN sigmets_json.features[2].properties
    /\ sigmets_json.features[2].properties.firId = "OTHER"
    /\ "firId" \notin DOMAIN sigmets_json.features[3].properties
    /\ filtered = <<sigmets_json.features[1]>>

\* a payload without the 'features' key has been fetched and transformed
NoFeaturesTransformed ==
    /\ Has(events, "transform")
    /\ "features" \notin DOMAIN sigmets_json

\* C4: fatal path. Once the transform stage has run on a payload without the
\* 'features' key, the only error reported is 'could not form XML', the run
\* is ending or ended, the write stage was not entered, the output file is
\* untouched and nothing was launched.
C4_NoFeaturesFatal ==
    NoFeaturesTransformed =>
        /\ console = <<ERR_FORM_XML>>
        /\ Ended
        /\ ~Has(events, "write")
        /\ outfile = NoFile
        /\ ~launched

\* such a run has ended
C4_Witness ==
    /\ NoFeaturesTransformed
    /\ pc = "exited"

\* the number of rings of the retained features before feature i
RECURSIVE RingsBefore(_)
RingsBefore(i) ==
    IF i <= 1 THEN 0
    ELSE RingsBefore(i - 1) + Len(filtered[i - 1].geometry.coordinates)

\* C5: polygon count and order. Whenever the write stage is reached, the
\* root <Maps> has exactly one child, the <Map> element with the default
\* attributes, which holds one polygon element per ring of every retained
\* feature: ring r of retained feature i is the element at position
\* (rings of the features before i) + r, and there are no other elements.
C5_PolygonCountOrder ==
    Has(events, "write") =>
        /\ maps_root.tag = "Maps"
        /\ Len(maps_root.children) = 1
        /\ maps_root.children[1].tag = "Map"
        /\ maps_root.children[1].attrib = DEFAULT_MAP_ATTRIBUTES
        /\ Len(Polygons) = RingsBefore(Len(filtered) + 1)
        /\ \A i \in 1..Len(filtered) :
              \A r \in 1..Len(filtered[i].geometry.coordinates) :
                 Polygons[RingsBefore(i) + r]
                    = make_poly_xml(filtered[i].geometry.coordinates[r]).value
        /\ outfile.state = "written" => outfile.content = maps_root

\* the write stage was reached with two retained features of two and three
\* rings, whose polygons differ
C5_Witness ==
    /\ Has(events, "write")
    /\ Len(filtered) = 2
    /\ Len(filtered[1].geometry.coordinates) = 2
    /\ Len(filtered[2].geometry.coordinates) = 3
    /\ Len(Polygons) = 5
    /\ Polygons[1] # Polygons[2]

Stages == <<"fetch", "transform", "write", "launch">>

\* every retained feature has a geometry whose positions are all pairs
TransformInputWellFormed ==
    /\ "features" \in DOMAIN sigmets_json
    /\ \A i \in 1..Len(sigmets_json.features) :
          "properties" \in DOMAIN sigmets_json.features[i]
    /\ \A i \in KzakPositions :
          /\ "geometry" \in DOMAIN sigmets_json.features[i]
          /\ \A r \in 1..Len(sigmets_json.features[i].geometry.coordinates) :
                \A k \in 1..Len(sigmets_json.features[i].geometry.coordinates[r]) :
                   Len(sigmets_json.features[i].geometry.coordinates[r][k]) = 2

\* C6: stage ordering and fatal failures. The stages entered are a prefix of
\* fetch, transform, write (then the launch), each at most once; after a
\* fetch failure no later stage was entered, after a transform failure the
\* write stage was not, after a write failure nothing follows, and in each
\* case the run is ending or ended; the output file is touched only in runs
\* whose fetch returned a payload and whose transform ran to completion on
\* well-formed input without reporting an error.
C6_StageOrder ==
    /\ \E n \in 0..Len(Stages) : events = SubSeq(Stages, 1, n)
    /\ Has(console, ERR_FETCH) => (events = <<"fetch">> /\ Ended /\ sigmets_json = Unbound)
    /\ Has(console, ERR_FORM_XML) => (events = <<"fetch", "transform">> /\ Ended)
    /\ Has(console, ERR_WRITE) => (events = <<"fetch", "transform", "write">> /\ Ended)
    /\ outfile # NoFile =>
          /\ Has(events, "write")
          /\ ~Has(console, ERR_FETCH)
          /\ ~Has(console, ERR_FORM_XML)
          /\ TransformInputWellFormed
          /\ Len(Polygons) = RingsBefore(Len(filtered) + 1)
    /\ Has(events, "write") => TransformInputWellFormed

\* a run whose transform failed after building one polygon has ended,
\* leaving the file untouched
C6_Witness ==
    /\ pc = "exited"
    /\ console = <<ERR_FORM_XML>>
    /\ maps_root # Unbound
    /\ Len(Polygons) = 1
    /\ outfile = NoFile

\* C7: the executable is launched only after a successful write. When it
\* was launched, the launch is the last of the four stages, the file holds
\* the complete document, no error was reported, and both the Maps folder
\* and the executable path were supplied or found; nothing is launched
\* otherwise.
C7_LaunchAfterWrite ==
    /\ launched <=> Has(events, "launch")
    /\ launched =>
          /\ events = Stages
          /\ outfile = [state |-> "written", content |-> maps_root]
          /\ console = <<>>
          /\ maps_dir \in {"arg", "registry", "home"}
          /\ exec_path \in {"arg", "x86", "w6432"}
          /\ exec_path = "arg" <=> args.exec
          /\ maps_dir = "arg" <=> args.mapsdir

\* the executable was launched and the program has exited
C7_Witness ==
    /\ launched
    /\ pc = "exited"
    /\ outfile.state = "written"

=============================================================================
